---------------------------- MODULE Spec2Model ----------------------------
(***************************************************************************)
(* The chat page (frontend/app/page.tsx) as a state machine.               *)
(*                                                                         *)
(* The React state of Home (apiKey, messages, inputMessage, isLoading,     *)
(* isValidApiKey, pdfFile, pdfStatus, isUploading, chatMode) is the        *)
(* program state.  Each async handler is a process whose position is a pc  *)
(* variable (pcChat, pcUpload, pcMount): one action is one run of the      *)
(* handler between two awaits, whose outcome (a response, a chunk, a       *)
(* rejection) the environment chooses.  A setMessages(updater) call is     *)
(* applied in the step that makes it: React applies queued updaters in the *)
(* order they were queued, before any later event is handled.              *)
(*                                                                         *)
(* Text is a sequence of code points, a chunk a sequence of bytes.         *)
(* page.tsx holds three versions of the page: the one with PDF upload and  *)
(* chat modes (lines 1-329, variant "rag") and two that probe /api/health  *)
(* before the chat request (lines 330-502 and 503-675, which differ in the *)
(* URLs only: variant "health").                                           *)
(***************************************************************************)
EXTENDS Integers, Sequences, FiniteSets, TLC

---------------------------------------------------------------------------
(* Bounds of the model                                                     *)

\* accepted submissions (chat turns) in one run
MaxTurns == 2
\* chunks one response stream delivers
MaxChunks == 2
\* upload requests in one run
MaxUploads == 1

---------------------------------------------------------------------------
(* Text literals of the source, as code points                             *)

\* 'Error: '
TxtErrorPrefix == <<69, 114, 114, 111, 114, 58, 32>>
\* 'Failed to process your request'
TxtFallback == <<70, 97, 105, 108, 101, 100, 32, 116, 111, 32, 112, 114, 111, 99, 101, 115, 115, 32, 121, 111, 117, 114, 32, 114, 101, 113, 117, 101, 115, 116>>
\* 'No reader available'
TxtNoReader == <<78, 111, 32, 114, 101, 97, 100, 101, 114, 32, 97, 118, 97, 105, 108, 97, 98, 108, 101>>
\* 'Server responded with status: '
TxtServerStatus == <<83, 101, 114, 118, 101, 114, 32, 114, 101, 115, 112, 111, 110, 100, 101, 100, 32, 119, 105, 116, 104, 32, 115, 116, 97, 116, 117, 115, 58, 32>>
\* 'Backend server is not responding'
TxtBackendDown == <<66, 97, 99, 107, 101, 110, 100, 32, 115, 101, 114, 118, 101, 114, 32, 105, 115, 32, 110, 111, 116, 32, 114, 101, 115, 112, 111, 110, 100, 105, 110, 103>>
\* 'Error uploading PDF: '
TxtUploadErrorPrefix == <<69, 114, 114, 111, 114, 32, 117, 112, 108, 111, 97, 100, 105, 110, 103, 32, 80, 68, 70, 58, 32>>
\* 'Unknown error'
TxtUnknownError == <<85, 110, 107, 110, 111, 119, 110, 32, 101, 114, 114, 111, 114>>
\* 'Failed to upload PDF'
TxtFailedUpload == <<70, 97, 105, 108, 101, 100, 32, 116, 111, 32, 117, 112, 108, 111, 97, 100, 32, 80, 68, 70>>
\* 'PDF "'
TxtPdfOpen == <<80, 68, 70, 32, 34>>
\* '" uploaded and processed successfully! You can now ask questions about the document.'
TxtPdfUploaded == <<34, 32, 117, 112, 108, 111, 97, 100, 101, 100, 32, 97, 110, 100, 32, 112, 114, 111, 99, 101, 115, 115, 101, 100, 32, 115, 117, 99, 99, 101, 115, 115, 102, 117, 108, 108, 121, 33, 32, 89, 111, 117, 32, 99, 97, 110, 32, 110, 111, 119, 32, 97, 115, 107, 32, 113, 117, 101, 115, 116, 105, 111, 110, 115, 32, 97, 98, 111, 117, 116, 32, 116, 104, 101, 32, 100, 111, 99, 117, 109, 101, 110, 116, 46>>
\* 'You are a helpful AI assistant.'
TxtDeveloperMessage == <<89, 111, 117, 32, 97, 114, 101, 32, 97, 32, 104, 101, 108, 112, 102, 117, 108, 32, 65, 73, 32, 97, 115, 115, 105, 115, 116, 97, 110, 116, 46>>
\* 'sk-'
TxtSk == <<115, 107, 45>>
\* 'sk-proj-'
TxtSkProj == <<115, 107, 45, 112, 114, 111, 106, 45>>

---------------------------------------------------------------------------
(* String operations of JavaScript, on sequences of code points            *)

\* String.prototype.startsWith
StartsWith(s, p) ==
    /\ Len(p) <= Len(s)
    /\ SubSeq(s, 1, Len(p)) = p

\* the code points String.prototype.trim removes (WhiteSpace and
\* LineTerminator of ECMAScript, those below U+3000)
WhiteSpace == {9, 10, 11, 12, 13, 32, 160, 5760, 8232, 8233, 8239, 8287}

RECURSIVE TrimStart(_)
TrimStart(s) ==
    IF s # <<>> /\ Head(s) \in WhiteSpace THEN TrimStart(Tail(s)) ELSE s

RECURSIVE TrimEnd(_)
TrimEnd(s) ==
    IF s # <<>> /\ s[Len(s)] \in WhiteSpace
    THEN TrimEnd(SubSeq(s, 1, Len(s) - 1))
    ELSE s

\* String.prototype.trim
Trim(s) == TrimEnd(TrimStart(s))

\* a string used as a condition: '' is falsy
Truthy(s) == s # <<>>

\* `${n}` of a non-negative integer: its decimal digits
RECURSIVE ToDecimal(_)
ToDecimal(n) ==
    IF n < 10 THEN <<48 + n>> ELSE ToDecimal(n \div 10) \o <<48 + (n % 10)>>

---------------------------------------------------------------------------
(* new TextDecoder().decode(value): the UTF-8 decoder of the Encoding      *)
(* standard, not fatal and not streaming.  Every call starts a fresh       *)
(* decoder, so a code point cut by the end of the chunk is not carried     *)
(* over: it decodes to U+FFFD.                                             *)

ReplacementChar == 65533

\* The decoder's handler on the bytes b[i..], with `needed` continuation
\* bytes outstanding for the code point cp, the next one within lo..hi.
RECURSIVE Utf8Run(_, _, _, _, _, _)
Utf8Run(b, i, needed, cp, lo, hi) ==
    IF i > Len(b)
    THEN IF needed > 0 THEN <<ReplacementChar>> ELSE <<>>
    ELSE LET byte == b[i] IN
         IF needed = 0
         THEN IF byte <= 127
              THEN <<byte>> \o Utf8Run(b, i + 1, 0, 0, 128, 191)
              ELSE IF byte >= 194 /\ byte <= 223
              THEN Utf8Run(b, i + 1, 1, byte % 32, 128, 191)
              ELSE IF byte >= 224 /\ byte <= 239
              THEN Utf8Run(b, i + 1, 2, byte % 16,
                           IF byte = 224 THEN 160 ELSE 128,
                           IF byte = 237 THEN 159 ELSE 191)
              ELSE IF byte >= 240 /\ byte <= 244
              THEN Utf8Run(b, i + 1, 3, byte % 8,
                           IF byte = 240 THEN 144 ELSE 128,
                           IF byte = 244 THEN 143 ELSE 191)
              ELSE <<ReplacementChar>> \o Utf8Run(b, i + 1, 0, 0, 128, 191)
         ELSE IF byte < lo \/ byte > hi
              THEN \* the byte is not a continuation: U+FFFD, and the byte
                   \* is read again as the start of a code point
                   <<ReplacementChar>> \o Utf8Run(b, i, 0, 0, 128, 191)
              ELSE IF needed = 1
              THEN <<cp * 64 + (byte % 64)>> \o Utf8Run(b, i + 1, 0, 0, 128, 191)
              ELSE Utf8Run(b, i + 1, needed - 1, cp * 64 + (byte % 64), 128, 191)

TextDecode(value) == Utf8Run(value, 1, 0, 0, 128, 191)

---------------------------------------------------------------------------
(* validateApiKey                                                          *)

MinKeyLength == 40

validateApiKeyNoLength(key) ==
    StartsWith(key, TxtSk) \/ StartsWith(key, TxtSkProj)

validateApiKey(key) ==
    /\ StartsWith(key, TxtSk) \/ StartsWith(key, TxtSkProj)
    /\ Len(key) >= MinKeyLength

---------------------------------------------------------------------------
(* What the user and the network can supply                                *)

Pad(n) == [i \in 1..n |-> 120]

\* 'sk-xxx...' of length 40, 'sk-proj-xxx...' of length 40
KeyPersonal == TxtSk \o Pad(MinKeyLength - Len(TxtSk))
KeyProject == TxtSkProj \o Pad(MinKeyLength - Len(TxtSkProj))
\* 'sk-xxx...' of length 39
KeyShort == TxtSk \o Pad(MinKeyLength - Len(TxtSk) - 1)
\* 'pk-xxx...' of length 41
KeyBadPrefix == <<112, 107, 45>> \o Pad(MinKeyLength - 2)

\* what can be typed into the credential field
Keys == {<<>>, KeyPersonal, KeyProject, KeyShort, KeyBadPrefix}

\* what is typed there when the page is driven through its controls
SomeKeys == {<<>>, KeyPersonal}

\* what can be typed into the message field: '', ' \t', 'hi'
Inputs == {<<>>, <<32, 9>>, <<104, 105>>}

\* what is typed there when the page is driven through its controls
SomeInputs == {<<>>, <<104, 105>>}

\* the files that can be selected: 'a.pdf' (application/pdf), 'b.txt'
PdfFiles == {[name |-> <<97, 46, 112, 100, 102>>, type |-> "application/pdf"]}
OtherFiles == {[name |-> <<98, 46, 116, 120, 116>>, type |-> "text/plain"]}
NoFile == [name |-> <<>>, type |-> "none"]

\* the byte chunks a response body can deliver: the body 'H\u00E9' (48 C3
\* A9) cut inside its second code point
Chunks == {<<72, 195>>, <<169>>}

\* what a rejected fetch or read throws: an Error with a message
\* ('Failed to fetch'), or a value that is no Error
FetchError ==
    [isError |-> TRUE,
     message |-> <<70, 97, 105, 108, 101, 100, 32, 116, 111, 32, 102, 101, 116, 99, 104>>]

ThrownValues == {FetchError, [isError |-> FALSE, message |-> <<>>]}

\* what a rejected read, upload or health probe throws
SomeThrown == {FetchError}

\* a response that is not ok: its status and the detail of its JSON body
\* ('Invalid API key'), <<>> when the body has none or is no JSON
ErrorResponses ==
    { [status |-> 401,
       detail |-> <<73, 110, 118, 97, 108, 105, 100, 32, 65, 80, 73, 32, 107, 101, 121>>],
      [status |-> 500, detail |-> <<>>] }

\* the response of a refused upload
SomeErrorResponses == {[status |-> 500, detail |-> <<>>]}

\* the body of an ok response of /api/pdf-status
StatusBodies ==
    { [pdf_loaded |-> FALSE, chunks_count |-> 0],
      [pdf_loaded |-> TRUE, chunks_count |-> 3] }

---------------------------------------------------------------------------
(* State                                                                   *)

VARIABLES
    \* which version of the page runs: "rag" or "health"
    variant,
    \* useState of Home
    apiKey, messages, inputMessage, isLoading, isValidApiKey,
    pdfFile, pdfStatus, isUploading, chatMode,
    \* handleSubmit: its position, its local assistantMessage, and the
    \* inputMessage and apiKey its closure captured
    pcChat, assistantMessage, closure,
    \* handleFileUpload: its position and the pdfFile its closure captured
    pcUpload, upFile,
    \* the checkPdfStatus call of the mount effect: "pending" or "done"
    pcMount,
    \* an updater threw while React rendered: the page is unmounted
    crashed,
    \* history (not program state): the number of accepted submissions;
    \* of the turn in progress (reset when it ends), the chunks its stream
    \* delivered, the number of entries its chunk loop created, the
    \* transcript when it was accepted, whether Clear Chat was pressed
    \* since, whether an upload result was appended since, and the
    \* requests it sent; per
    \* entry of messages who wrote it, [kind, turn]; the number of upload
    \* requests; per handler, what its last invocation found (the message
    \* or file and isValidApiKey) and a bit that flips at each invocation
    turn, delivered, created, startMessages, cleared, uploaded, origin,
    chatRequests, uploadRequests, submitSeen, uploadSeen

stateVars ==
    <<apiKey, messages, inputMessage, isLoading, isValidApiKey,
      pdfFile, pdfStatus, isUploading, chatMode>>

chatVars == <<pcChat, assistantMessage, closure>>

uploadVars == <<pcUpload, upFile>>

historyVars ==
    <<turn, delivered, created, startMessages, cleared, uploaded, origin,
      chatRequests, uploadRequests, submitSeen, uploadSeen>>

vars ==
    <<variant, stateVars, chatVars, uploadVars, pcMount, crashed, historyVars>>

Message(role, content) == [role |-> role, content |-> content]

Origin(kind, t) == [kind |-> kind, turn |-> t]

Init ==
    /\ variant \in {"rag", "health"}
    /\ apiKey = <<>>
    /\ messages = <<>>
    /\ inputMessage = <<>>
    /\ isLoading = FALSE
    /\ isValidApiKey = FALSE
    /\ pdfFile = NoFile
    /\ pdfStatus = [pdf_loaded |-> FALSE, chunks_count |-> 0]
    /\ isUploading = FALSE
    /\ chatMode = "regular"
    /\ pcChat = "idle"
    /\ assistantMessage = <<>>
    /\ closure = [inputMessage |-> <<>>, apiKey |-> <<>>]
    /\ pcUpload = "idle"
    /\ upFile = NoFile
    /\ pcMount = IF variant = "rag" THEN "pending" ELSE "done"
    /\ crashed = FALSE
    /\ turn = 0
    /\ delivered = <<>>
    /\ created = 0
    /\ startMessages = <<>>
    /\ cleared = FALSE
    /\ uploaded = FALSE
    /\ origin = <<>>
    /\ chatRequests = <<>>
    /\ uploadRequests = 0
    /\ submitSeen = [tick |-> FALSE, input |-> <<>>, valid |-> FALSE]
    /\ uploadSeen = [tick |-> FALSE, file |-> NoFile, valid |-> FALSE]

---------------------------------------------------------------------------
(* The controls of the page: their disabled attributes                     *)

\* the message field
InputDisabledNoLoading == ~isValidApiKey

InputDisabled == ~isValidApiKey \/ isLoading

\* the submit button; a disabled submit button also stops the Enter key
\* of the message field from submitting the form
SubmitDisabled == ~isValidApiKey \/ isLoading \/ ~Truthy(Trim(inputMessage))

\* the Upload button
UploadDisabled == pdfFile = NoFile \/ ~isValidApiKey \/ isUploading

\* the "Chat with PDF" button
RagDisabled == ~pdfStatus.pdf_loaded

\* the page is rendered
Mounted == ~crashed

---------------------------------------------------------------------------
(* Credential and message fields, file selection, mode buttons, Clear Chat *)

handleApiKeyChange(newKey) ==
    /\ Mounted
    /\ apiKey' = newKey
    /\ isValidApiKey' = validateApiKey(newKey)
    /\ UNCHANGED <<variant, messages, inputMessage, isLoading, pdfFile,
                   pdfStatus, isUploading, chatMode, chatVars, uploadVars,
                   pcMount, crashed, historyVars>>

\* onChange of the message field
handleInputChange(text) ==
    /\ Mounted
    /\ ~InputDisabled
    /\ inputMessage' = text
    /\ UNCHANGED <<variant, apiKey, messages, isLoading, isValidApiKey,
                   pdfFile, pdfStatus, isUploading, chatMode, chatVars,
                   uploadVars, pcMount, crashed, historyVars>>

\* a file is chosen (NoFile: the dialog is cancelled); a file that is no
\* PDF raises an alert and is not kept
handleFileChange(file) ==
    /\ Mounted
    /\ variant = "rag"
    /\ pdfFile' = IF file # NoFile /\ file.type = "application/pdf"
                  THEN file
                  ELSE pdfFile
    /\ UNCHANGED <<variant, apiKey, messages, inputMessage, isLoading,
                   isValidApiKey, pdfStatus, isUploading, chatMode, chatVars,
                   uploadVars, pcMount, crashed, historyVars>>

\* the "Regular Chat" button
SelectRegular ==
    /\ Mounted
    /\ variant = "rag"
    /\ chatMode' = "regular"
    /\ UNCHANGED <<variant, apiKey, messages, inputMessage, isLoading,
                   isValidApiKey, pdfFile, pdfStatus, isUploading, chatVars,
                   uploadVars, pcMount, crashed, historyVars>>

\* the "Chat with PDF" button
SelectRag ==
    /\ Mounted
    /\ variant = "rag"
    /\ ~RagDisabled
    /\ chatMode' = "rag"
    /\ UNCHANGED <<variant, apiKey, messages, inputMessage, isLoading,
                   isValidApiKey, pdfFile, pdfStatus, isUploading, chatVars,
                   uploadVars, pcMount, crashed, historyVars>>

\* whether a chat turn is in progress (history bookkeeping only)
TurnOpen == pcChat # "idle"

clearChat ==
    /\ Mounted
    /\ variant = "rag"
    /\ messages' = <<>>
    /\ origin' = <<>>
    /\ cleared' = (cleared \/ TurnOpen)
    /\ UNCHANGED <<uploaded, variant, apiKey, inputMessage, isLoading,
                   isValidApiKey,
                   pdfFile, pdfStatus, isUploading, chatMode, chatVars,
                   uploadVars, pcMount, crashed, turn, delivered, created,
                   startMessages, chatRequests, uploadRequests,
                   submitSeen, uploadSeen>>

---------------------------------------------------------------------------
(* checkPdfStatus                                                          *)

\* The outcomes of the fetch of checkPdfStatus: an ok response with a
\* parsed body, or none (the fetch or json() was rejected, or the response
\* is not ok).
StatusResults ==
    {[ok |-> FALSE, body |-> [pdf_loaded |-> FALSE, chunks_count |-> 0]]}
        \cup {[ok |-> TRUE, body |-> b] : b \in StatusBodies}

\* pdfStatus and chatMode after checkPdfStatus, from their values before
StatusAfter(res, status) == IF res.ok THEN res.body ELSE status

ModeAfterOnOk(res, mode) ==
    IF res.ok THEN "rag" ELSE mode

ModeAfter(res, mode) ==
    IF res.ok /\ res.body.pdf_loaded THEN "rag" ELSE mode

\* the checkPdfStatus call of the mount effect returns
MountProbeReturns(res) ==
    /\ Mounted
    /\ pcMount = "pending"
    /\ pcMount' = "done"
    /\ pdfStatus' = StatusAfter(res, pdfStatus)
    /\ chatMode' = ModeAfter(res, chatMode)
    /\ UNCHANGED <<variant, apiKey, messages, inputMessage, isLoading,
                   isValidApiKey, pdfFile, isUploading, chatVars, uploadVars,
                   crashed, historyVars>>

---------------------------------------------------------------------------
(* handleFileUpload                                                        *)

\* the message of a caught value: error instanceof Error ? error.message
\* : fallback
ErrorMessage(e, fallback) == IF e.isError THEN e.message ELSE fallback

\* the guard of handleFileUpload: TRUE when the handler goes on
UploadGuard(file, valid) == ~(file = NoFile \/ ~valid)

\* catch and finally of handleFileUpload
UploadCatchResetsMode(text) ==
    /\ messages' = Append(messages,
                          Message("assistant", TxtUploadErrorPrefix \o text))
    /\ origin' = Append(origin, Origin("uploadError", 0))
    /\ uploaded' = (uploaded \/ TurnOpen)
    /\ isUploading' = FALSE
    /\ pdfFile' = NoFile
    /\ pcUpload' = "idle"
    /\ upFile' = NoFile
    /\ chatMode' = "regular"
    /\ UNCHANGED <<cleared, variant, apiKey, inputMessage, isLoading,
                   isValidApiKey, pdfStatus, chatVars, pcMount, crashed,
                   turn, delivered, created, startMessages,
                   chatRequests, uploadRequests, submitSeen, uploadSeen>>

UploadCatch(text) ==
    /\ messages' = Append(messages,
                          Message("assistant", TxtUploadErrorPrefix \o text))
    /\ origin' = Append(origin, Origin("uploadError", 0))
    /\ uploaded' = (uploaded \/ TurnOpen)
    /\ isUploading' = FALSE
    /\ pdfFile' = NoFile
    /\ pcUpload' = "idle"
    /\ upFile' = NoFile
    /\ UNCHANGED <<cleared, variant, apiKey, inputMessage, isLoading,
                   isValidApiKey,
                   pdfStatus, chatMode, chatVars, pcMount, crashed,
                   turn, delivered, created, startMessages,
                   chatRequests, uploadRequests, submitSeen, uploadSeen>>

\* the handler up to its first await: the guard, setIsUploading(true) and
\* the POST of the file and the credential
handleFileUpload ==
    /\ Mounted
    /\ variant = "rag"
    /\ uploadSeen' = [tick |-> ~uploadSeen.tick, file |-> pdfFile,
                      valid |-> isValidApiKey]
    /\ IF UploadGuard(pdfFile, isValidApiKey)
       THEN /\ uploadRequests < MaxUploads
            /\ isUploading' = TRUE
            /\ upFile' = pdfFile
            /\ uploadRequests' = uploadRequests + 1
            /\ pcUpload' = "fetching"
       ELSE UNCHANGED <<isUploading, upFile, uploadRequests, pcUpload>>
    /\ UNCHANGED <<variant, apiKey, messages, inputMessage, isLoading,
                   isValidApiKey, pdfFile, pdfStatus, chatMode, chatVars,
                   pcMount, crashed, turn, delivered, created, startMessages,
                   cleared, uploaded, origin, chatRequests,
                   submitSeen>>

\* the Upload button is pressed
UploadClick ==
    /\ ~UploadDisabled
    /\ handleFileUpload

\* the POST is rejected, or json() of its response is
UploadFetchRejects(e) ==
    /\ Mounted
    /\ pcUpload = "fetching"
    /\ UploadCatch(ErrorMessage(e, TxtUnknownError))

\* the response is not ok: throw new Error(error.detail || 'Failed to
\* upload PDF')
UploadResponseNotOk(r) ==
    /\ Mounted
    /\ pcUpload = "fetching"
    /\ UploadCatch(IF Truthy(r.detail) THEN r.detail ELSE TxtFailedUpload)

\* the response is ok: setChatMode('rag'), and checkPdfStatus is called
UploadResponseOk ==
    /\ Mounted
    /\ pcUpload = "fetching"
    /\ chatMode' = "rag"
    /\ pcUpload' = "probing"
    /\ UNCHANGED <<variant, apiKey, messages, inputMessage, isLoading,
                   isValidApiKey, pdfFile, pdfStatus, isUploading,
                   chatVars, upFile, pcMount, crashed, historyVars>>

\* checkPdfStatus returns to handleFileUpload, which appends the success
\* message and runs its finally block
UploadProbeReturns(res) ==
    /\ Mounted
    /\ pcUpload = "probing"
    /\ pdfStatus' = StatusAfter(res, pdfStatus)
    /\ chatMode' = ModeAfter(res, chatMode)
    /\ messages' = Append(messages,
                          Message("assistant",
                                  TxtPdfOpen \o upFile.name \o TxtPdfUploaded))
    /\ origin' = Append(origin, Origin("upload", 0))
    /\ uploaded' = (uploaded \/ TurnOpen)
    /\ isUploading' = FALSE
    /\ pdfFile' = NoFile
    /\ pcUpload' = "idle"
    /\ upFile' = NoFile
    /\ UNCHANGED <<cleared, variant, apiKey, inputMessage, isLoading,
                   isValidApiKey,
                   chatVars, pcMount, crashed, turn, delivered,
                   created, startMessages, chatRequests,
                   uploadRequests, submitSeen, uploadSeen>>

---------------------------------------------------------------------------
(* handleSubmit                                                            *)

\* the guard of handleSubmit: TRUE when the handler goes on
SubmitGuardNoTrim(input, valid) == ~(~Truthy(input) \/ ~valid)

SubmitGuard(input, valid) == ~(~Truthy(Trim(input)) \/ ~valid)

\* the requests handleSubmit sends
HealthRequest == [url |-> "/api/health", method |-> "GET"]

RagChatRequest(input, key) ==
    [url |-> "/api/rag-chat", method |-> "POST",
     body |-> [user_message |-> input, api_key |-> key]]

ChatRequest(input, key) ==
    [url |-> "/api/chat", method |-> "POST",
     body |-> [developer_message |-> TxtDeveloperMessage,
               user_message |-> input, api_key |-> key]]

\* the request of a turn of the page with chat modes
FirstRequestRegular(mode, input, key) == ChatRequest(input, key)

FirstRequest(mode, input, key) ==
    IF mode = "rag" THEN RagChatRequest(input, key) ELSE ChatRequest(input, key)

\* The updater handleSubmit passes to setMessages for a chunk, on a
\* transcript that is not empty.
ChunkUpdaterAppends(prev, acc) ==
    Append(prev, Message("assistant", acc))

ChunkUpdaterLastAssistant(prev, acc) ==
    LET idx == {i \in 1..Len(prev) : prev[i].role = "assistant"} IN
    IF idx # {}
    THEN LET m == CHOOSE i \in idx : \A j \in idx : j <= i IN
         [prev EXCEPT ![m].content = acc]
    ELSE Append(prev, Message("assistant", acc))

ChunkUpdater(prev, acc) ==
    IF prev[Len(prev)].role = "assistant"
    THEN [prev EXCEPT ![Len(prev)].content = acc]
    ELSE Append(prev, Message("assistant", acc))

\* the updater reads lastMessage.role of an empty transcript: a TypeError
\* thrown while React renders, outside the try block of handleSubmit
ChunkUpdaterThrows(prev) == prev = <<>>

\* who wrote the entries, after the updater ran on `prev`
OriginAfterChunk(prev, next, org, t) ==
    IF Len(next) > Len(prev)
    THEN Append(org, Origin("reply", t))
    ELSE [i \in 1..Len(next) |->
            IF next[i] # prev[i] THEN Origin("reply", t) ELSE org[i]]

\* handleSubmit returns: its locals are gone, and the history of the turn
\* is closed
NoClosure == [inputMessage |-> <<>>, apiKey |-> <<>>]

SubmitReturns ==
    /\ pcChat' = "idle"
    /\ assistantMessage' = <<>>
    /\ closure' = NoClosure
    /\ delivered' = <<>>
    /\ created' = 0
    /\ startMessages' = <<>>
    /\ cleared' = FALSE
    /\ uploaded' = FALSE
    /\ chatRequests' = <<>>

\* catch and finally of handleSubmit
SubmitCatchSilent(text) ==
    /\ isLoading' = FALSE
    /\ SubmitReturns
    /\ UNCHANGED <<variant, apiKey, messages, inputMessage, isValidApiKey,
                   pdfFile, pdfStatus, isUploading, chatMode, uploadVars,
                   pcMount, crashed, turn, origin, uploadRequests,
                   submitSeen, uploadSeen>>

SubmitCatchReplaces(text) ==
    /\ messages' =
          SubSeq(messages, 1, Len(messages) - 1)
              \o <<Message("assistant", TxtErrorPrefix \o text)>>
    /\ origin' =
          SubSeq(origin, 1, Len(origin) - 1) \o <<Origin("error", turn)>>
    /\ isLoading' = FALSE
    /\ SubmitReturns
    /\ UNCHANGED <<variant, apiKey, inputMessage, isValidApiKey, pdfFile,
                   pdfStatus, isUploading, chatMode, uploadVars, pcMount,
                   crashed, turn, uploadRequests, submitSeen, uploadSeen>>

SubmitCatch(text) ==
    /\ messages' = Append(messages,
                          Message("assistant", TxtErrorPrefix \o text))
    /\ origin' = Append(origin, Origin("error", turn))
    /\ isLoading' = FALSE
    /\ SubmitReturns
    /\ UNCHANGED <<variant, apiKey, inputMessage, isValidApiKey, pdfFile,
                   pdfStatus, isUploading, chatMode, uploadVars, pcMount,
                   crashed, turn, uploadRequests, submitSeen, uploadSeen>>

\* the handler up to its first await: the guard, the user entry,
\* setInputMessage(''), setIsLoading(true) and the first fetch
handleSubmit ==
    /\ Mounted
    /\ submitSeen' = [tick |-> ~submitSeen.tick, input |-> inputMessage,
                      valid |-> isValidApiKey]
    /\ IF SubmitGuard(inputMessage, isValidApiKey)
       THEN /\ turn < MaxTurns
            /\ messages' = Append(messages, Message("user", inputMessage))
            /\ origin' = Append(origin, Origin("user", turn + 1))
            /\ inputMessage' = <<>>
            /\ isLoading' = TRUE
            /\ closure' = [inputMessage |-> inputMessage, apiKey |-> apiKey]
            /\ IF variant = "health"
               THEN /\ chatRequests' = <<HealthRequest>>
                    /\ pcChat' = "probing"
               ELSE /\ chatRequests' =
                           <<FirstRequest(chatMode, inputMessage, apiKey)>>
                    /\ pcChat' = "fetching"
            /\ turn' = turn + 1
            /\ delivered' = <<>>
            /\ created' = 0
            /\ startMessages' = messages
            /\ cleared' = FALSE
            /\ uploaded' = FALSE
       ELSE UNCHANGED <<messages, origin, inputMessage, isLoading, closure,
                        chatRequests, pcChat, turn, delivered, created,
                        startMessages, cleared, uploaded>>
    /\ UNCHANGED <<variant, apiKey, isValidApiKey, pdfFile, pdfStatus,
                   isUploading, chatMode, assistantMessage, uploadVars,
                   pcMount, crashed, uploadRequests, uploadSeen>>

\* the form is submitted: the submit button is pressed, or Enter in the
\* message field
SubmitForm ==
    /\ ~SubmitDisabled
    /\ handleSubmit

\* the fetch of /api/health is rejected
HealthFetchRejects(e) ==
    /\ Mounted
    /\ pcChat = "probing"
    /\ SubmitCatch(ErrorMessage(e, TxtFallback))

\* its response is not ok
HealthNotOkSilent ==
    /\ Mounted
    /\ pcChat = "probing"
    /\ SubmitCatchSilent(TxtBackendDown)

HealthNotOk ==
    /\ Mounted
    /\ pcChat = "probing"
    /\ SubmitCatch(TxtBackendDown)

\* its response is ok: the chat request is sent
HealthOk ==
    /\ Mounted
    /\ pcChat = "probing"
    /\ chatRequests' = Append(chatRequests,
                              ChatRequest(closure.inputMessage, closure.apiKey))
    /\ pcChat' = "fetching"
    /\ UNCHANGED <<variant, stateVars, assistantMessage, closure, uploadVars,
                   pcMount, crashed, turn, delivered, created, startMessages,
                   cleared, uploaded, origin, uploadRequests,
                   submitSeen, uploadSeen>>

\* the chat fetch is rejected
ChatFetchRejects(e) ==
    /\ Mounted
    /\ pcChat = "fetching"
    /\ SubmitCatch(ErrorMessage(e, TxtFallback))

\* the response is not ok: throw new Error(errorData.detail || `Server
\* responded with status: ${response.status}`)
ChatResponseNotOk(r) ==
    /\ Mounted
    /\ pcChat = "fetching"
    /\ SubmitCatch(IF Truthy(r.detail)
                   THEN r.detail
                   ELSE TxtServerStatus \o ToDecimal(r.status))

\* the response is ok and has no body
ChatNoReader ==
    /\ Mounted
    /\ pcChat = "fetching"
    /\ SubmitCatch(TxtNoReader)

\* the response is ok: let assistantMessage = '' and the first read
ChatStreamOpensEager ==
    /\ Mounted
    /\ pcChat = "fetching"
    /\ assistantMessage' = <<>>
    /\ pcChat' = "reading"
    /\ messages' = Append(messages, Message("assistant", <<>>))
    /\ origin' = Append(origin, Origin("reply", turn))
    /\ created' = created + 1
    /\ UNCHANGED <<variant, apiKey, inputMessage, isLoading, isValidApiKey,
                   pdfFile, pdfStatus, isUploading, chatMode, closure,
                   uploadVars, pcMount, crashed, turn, delivered,
                   startMessages, cleared, uploaded, chatRequests,
                   uploadRequests, submitSeen, uploadSeen>>

ChatStreamOpens ==
    /\ Mounted
    /\ pcChat = "fetching"
    /\ assistantMessage' = <<>>
    /\ pcChat' = "reading"
    /\ UNCHANGED <<variant, stateVars, closure, uploadVars, pcMount, crashed,
                   historyVars>>

\* reader.read() returns a chunk: one turn of the loop
ReadChunk(value) ==
    /\ Mounted
    /\ pcChat = "reading"
    /\ Len(delivered) < MaxChunks
    /\ delivered' = Append(delivered, value)
    /\ assistantMessage' = assistantMessage \o TextDecode(value)
    /\ IF ChunkUpdaterThrows(messages)
       THEN /\ crashed' = TRUE
            /\ UNCHANGED <<messages, origin, created>>
       ELSE /\ messages' = ChunkUpdater(messages, assistantMessage')
            /\ origin' = OriginAfterChunk(messages, messages', origin, turn)
            /\ created' = created + (Len(messages') - Len(messages))
            /\ UNCHANGED crashed
    /\ UNCHANGED <<variant, apiKey, inputMessage, isLoading, isValidApiKey,
                   pdfFile, pdfStatus, isUploading, chatMode, pcChat, closure,
                   uploadVars, pcMount, turn, startMessages,
                   cleared, uploaded, chatRequests, uploadRequests, submitSeen,
                   uploadSeen>>

\* reader.read() returns done: the loop ends, then finally
ReadDone ==
    /\ Mounted
    /\ pcChat = "reading"
    /\ isLoading' = FALSE
    /\ SubmitReturns
    /\ UNCHANGED <<variant, apiKey, messages, inputMessage, isValidApiKey,
                   pdfFile, pdfStatus, isUploading, chatMode, uploadVars,
                   pcMount, crashed, turn, origin, uploadRequests, submitSeen,
                   uploadSeen>>

\* reader.read() is rejected
ReadRejects(e) ==
    /\ Mounted
    /\ pcChat = "reading"
    /\ SubmitCatch(ErrorMessage(e, TxtFallback))

---------------------------------------------------------------------------
(* The page in the browser                                                 *)

Next ==
    \/ \E k \in SomeKeys : handleApiKeyChange(k)
    \/ \E t \in SomeInputs : handleInputChange(t)
    \/ \E f \in PdfFiles \cup OtherFiles \cup {NoFile} : handleFileChange(f)
    \/ SelectRegular
    \/ SelectRag
    \/ clearChat
    \/ \E res \in StatusResults : MountProbeReturns(res)
    \/ UploadClick
    \/ \E e \in SomeThrown : UploadFetchRejects(e)
    \/ \E r \in SomeErrorResponses : UploadResponseNotOk(r)
    \/ UploadResponseOk
    \/ \E res \in StatusResults : UploadProbeReturns(res)
    \/ SubmitForm
    \/ \E e \in SomeThrown : HealthFetchRejects(e)
    \/ HealthNotOk
    \/ HealthOk
    \/ \E e \in ThrownValues : ChatFetchRejects(e)
    \/ \E r \in ErrorResponses : ChatResponseNotOk(r)
    \/ ChatNoReader
    \/ ChatStreamOpens
    \/ \E c \in Chunks : ReadChunk(c)
    \/ ReadDone
    \/ \E e \in SomeThrown : ReadRejects(e)

Spec == Init /\ [][Next]_vars

---------------------------------------------------------------------------
(* The handlers called whatever the state of the controls                  *)

\* A submit event reaches handleSubmit with the submit button enabled or
\* not (form.requestSubmit(), a test that fires the event).  One turn at a
\* time: the locals of a second concurrent handleSubmit are not modelled.
SubmitEvent ==
    /\ pcChat = "idle"
    /\ handleSubmit

\* handleFileUpload is called with the Upload button enabled or not
UploadEvent ==
    /\ pcUpload = "idle"
    /\ handleFileUpload

\* Every credential and every message can be typed; the network does not
\* fail, the status probes find no PDF (that of the mount effect does not
\* return), a reply is one chunk at most, and the buttons other than
\* submit and Upload are left alone.
NextHandlers ==
    \/ \E k \in Keys : handleApiKeyChange(k)
    \/ \E t \in Inputs : handleInputChange(t)
    \/ \E f \in PdfFiles \cup OtherFiles \cup {NoFile} : handleFileChange(f)
    \/ SubmitEvent
    \/ UploadEvent
    \/ UploadResponseOk
    \/ \E res \in {r \in StatusResults : ~r.ok} : UploadProbeReturns(res)
    \/ HealthOk
    \/ ChatStreamOpens
    \/ delivered = <<>> /\ ReadChunk(<<72, 195>>)
    \/ ReadDone

SpecHandlers == Init /\ [][NextHandlers]_vars

---------------------------------------------------------------------------
(* Properties of a chat turn                                               *)

\* the text of the chunks, each decoded on its own, in arrival order
RECURSIVE ConcatText(_)
ConcatText(chunks) ==
    IF chunks = <<>>
    THEN <<>>
    ELSE TextDecode(Head(chunks)) \o ConcatText(Tail(chunks))

\* the entries of turn t: who wrote them, in transcript order
TurnKinds(org, t) ==
    LET own == SelectSeq(org, LAMBDA o : o.turn = t) IN
    [i \in 1..Len(own) |-> own[i].kind]

\* where the reply entries of turn t are
TurnReplies(org, t) == {i \in 1..Len(org) : org[i] = Origin("reply", t)}

\* the step in which the stream of the open turn ends without a failure
StreamEnds ==
    /\ pcChat = "reading"
    /\ pcChat' = "idle"
    /\ messages' = messages

\* the step in which the open turn fails
TurnFails ==
    /\ pcChat # "idle"
    /\ pcChat' = "idle"
    /\ messages' # messages

\* C1: when a session whose stream delivered one chunk or more ends
\* without a failure (and Clear Chat was not pressed meanwhile), the
\* transcript holds the user entry of the session and exactly one reply
\* entry of it, whose content is the concatenation of the chunks.
C1_ReplyIsConcatenation ==
    [][StreamEnds /\ delivered # <<>> /\ ~cleared =>
          /\ TurnKinds(origin, turn) = <<"user", "reply">>
          /\ \A i \in TurnReplies(origin, turn) :
                messages[i] = Message("assistant", ConcatText(delivered))
      ]_vars

\* C2: the chunk loop of one session creates at most one entry, and a
\* session that fails with no chunk delivered has created no reply entry.
C2_AtMostOneReplyEntry ==
    [][/\ created' <= 1
       /\ TurnFails /\ delivered = <<>> =>
             /\ created = 0
             /\ TurnReplies(origin', turn) = {}
      ]_vars

\* the second chunk of a session has been folded into the entry the first
\* one created
C2_Witness ==
    /\ pcChat = "reading"
    /\ Len(delivered) >= 2
    /\ created = 1
    /\ ~uploaded
    /\ ~cleared

\* C3: when a session fails after one chunk or more (and Clear Chat was
\* not pressed meanwhile), its entries are, in order, the user entry, one
\* reply entry holding the concatenation of the chunks delivered, and one
\* error entry.
C3_PartialReplyThenError ==
    [][TurnFails /\ delivered # <<>> /\ ~cleared =>
          /\ TurnKinds(origin', turn) = <<"user", "reply", "error">>
          /\ \A i \in TurnReplies(origin', turn) :
                messages'[i] = Message("assistant", ConcatText(delivered))
      ]_vars

\* C4: a failure before any chunk appends one assistant entry whose
\* content starts with 'Error: ' and no reply entry; the entries of the
\* session are the user entry then the error entry, and with no upload
\* result and no Clear Chat in between the transcript is the one before
\* the submission followed by these two.
C4_FailureBeforeAnyChunk ==
    [][TurnFails /\ delivered = <<>> =>
          /\ Len(messages') = Len(messages) + 1
          /\ LET e == messages'[Len(messages')] IN
             /\ messages' = Append(messages, e)
             /\ e.role = "assistant"
             /\ StartsWith(e.content, TxtErrorPrefix)
             /\ ~cleared /\ ~uploaded =>
                   messages' = startMessages \o
                               <<Message("user", closure.inputMessage), e>>
          /\ created = 0
          /\ TurnReplies(origin', turn) = {}
          /\ ~cleared => TurnKinds(origin', turn) = <<"user", "error">>
      ]_vars

\* a session has ended in a failure with only its user entry and its
\* error entry in the transcript
C4_Witness ==
    /\ pcChat = "idle"
    /\ turn >= 1
    /\ Len(origin) >= 2
    /\ origin[Len(origin) - 1] = Origin("user", turn)
    /\ origin[Len(origin)] = Origin("error", turn)
    /\ StartsWith(messages[Len(messages)].content, TxtErrorPrefix)

---------------------------------------------------------------------------
(* Properties of the guards                                                *)

\* C5: handleSubmit called with a message that is empty or only white
\* space changes no state variable of the page and sends nothing.
C5_BlankSubmitIsNoOp ==
    [][submitSeen' # submitSeen /\ ~Truthy(Trim(inputMessage)) =>
          UNCHANGED <<variant, stateVars, chatVars, uploadVars, pcMount,
                      crashed, turn, delivered, created, startMessages,
                      cleared, uploaded, origin, chatRequests,
                      uploadRequests, uploadSeen>>
      ]_vars

\* handleSubmit has run on a message of white space with a valid
\* credential entered, and the message is still in the field
C5_Witness ==
    /\ submitSeen.input = <<32, 9>>
    /\ submitSeen.valid
    /\ inputMessage = <<32, 9>>
    /\ isValidApiKey
    /\ turn = 0
    /\ messages = <<>>

\* a credential that the claim calls invalid
Rejected(key) ==
    \/ Len(key) < MinKeyLength
    \/ ~(StartsWith(key, TxtSk) \/ StartsWith(key, TxtSkProj))

\* C6: while the credential entered is shorter than 40 or has neither
\* prefix, isValidApiKey is false, and a call of handleSubmit or of
\* handleFileUpload sends no request and leaves the transcript alone.
C6_InvalidCredentialSendsNothing ==
    [][/\ Rejected(apiKey') => ~isValidApiKey'
       /\ (submitSeen' # submitSeen \/ uploadSeen' # uploadSeen)
              /\ Rejected(apiKey) =>
             UNCHANGED <<messages, chatRequests, uploadRequests, turn,
                         pcChat, pcUpload, isLoading, isUploading>>
      ]_vars

\* both handlers have run on a message and a selected PDF while the
\* credential 'sk-' + 36 characters was entered, and nothing was sent
C6_Witness ==
    /\ apiKey = KeyShort
    /\ submitSeen.input = <<104, 105>>
    /\ ~submitSeen.valid
    /\ uploadSeen.file \in PdfFiles
    /\ ~uploadSeen.valid
    /\ turn = 0
    /\ uploadRequests = 0
    /\ messages = <<>>

---------------------------------------------------------------------------
(* Properties of the transcript                                            *)

\* the entries present before and after a step whose content or role the
\* step changed
Rewritten ==
    {i \in 1..Len(messages) :
        i <= Len(messages') /\ messages'[i] # messages[i]}

\* C7: a step rewrites at most one entry, which is then the last one, an
\* assistant entry, during the chunk loop of the open session; a reply
\* entry of a session whose stream has ended is in no step rewritten.
C7_OneOpenEntrySealedAfterwards ==
    [][/\ Rewritten # {} =>
             /\ Rewritten = {Len(messages)}
             /\ messages[Len(messages)].role = "assistant"
             /\ messages'[Len(messages)].role = "assistant"
             /\ pcChat = "reading"
       /\ \A i \in 1..Len(origin) :
             /\ origin[i].kind = "reply"
             /\ origin[i].turn < turn \/ pcChat = "idle"
             => i \notin Rewritten
      ]_vars

\* the second session is streaming into its own entry while the reply
\* entry of the first is still in the transcript
C7_Witness ==
    /\ pcChat = "reading"
    /\ turn = 2
    /\ delivered # <<>>
    /\ TurnReplies(origin, 1) # {}
    /\ TurnReplies(origin, 2) # {}

\* s is an initial part of t
IsPrefix(s, t) == Len(s) <= Len(t) /\ SubSeq(t, 1, Len(s)) = s

\* the step keeps every entry but the last and changes only the content
\* of the last one, while the stream of the open session is read
RewritesLast ==
    /\ pcChat = "reading"
    /\ messages # <<>>
    /\ Len(messages') = Len(messages)
    /\ \A i \in 1..(Len(messages) - 1) : messages'[i] = messages[i]
    /\ messages'[Len(messages)].role = messages[Len(messages)].role

\* C8 as stated: every step appends to the transcript, or grows the
\* content of its last entry while a stream is read.
C8_AppendOnly ==
    [][\/ IsPrefix(messages, messages')
       \/ /\ RewritesLast
          /\ IsPrefix(messages[Len(messages)].content,
                      messages'[Len(messages)].content)
      ]_vars

\* C8, amended: Clear Chat empties the transcript; every other step
\* appends to it, or rewrites the content of its last entry, an assistant
\* entry, while the stream is read, and that rewrite extends the content
\* when the entry is the reply entry of the open session.
C8_AppendOnlyButClearChat ==
    [][IF clearChat
       THEN messages' = <<>>
       ELSE \/ IsPrefix(messages, messages')
            \/ /\ RewritesLast
               /\ messages[Len(messages)].role = "assistant"
               /\ origin[Len(origin)] = Origin("reply", turn) =>
                     IsPrefix(messages[Len(messages)].content,
                              messages'[Len(messages)].content)
      ]_vars

\* Clear Chat has emptied a transcript that held a whole turn, and a
\* later turn is streaming into the new transcript
C8_Witness ==
    /\ turn = 2
    /\ pcChat = "reading"
    /\ delivered # <<>>
    /\ Len(messages) = 2
    /\ TurnReplies(origin, 2) # {}

\* the step in which a request of the open turn, or a read of its stream,
\* fails
RequestFails ==
    \/ \E e \in ThrownValues :
          HealthFetchRejects(e) \/ ChatFetchRejects(e) \/ ReadRejects(e)
    \/ HealthNotOk
    \/ \E r \in ErrorResponses : ChatResponseNotOk(r)
    \/ ChatNoReader

\* the chat requests among the requests sent
ChatRequestsOf(reqs) ==
    SelectSeq(reqs, LAMBDA r : r.url # HealthRequest.url)

\* C9: a failed request or read ends the turn inside handleSubmit with
\* exactly one entry appended, an assistant entry 'Error: ' and a
\* message; a turn sends one chat request, never a second.
C9_FailureIsOneErrorEntry ==
    [][/\ RequestFails =>
             /\ Len(messages') = Len(messages) + 1
             /\ LET e == messages'[Len(messages')] IN
                /\ messages' = Append(messages, e)
                /\ e.role = "assistant"
                /\ StartsWith(e.content, TxtErrorPrefix)
                /\ Len(e.content) > Len(TxtErrorPrefix)
             /\ pcChat' = "idle"
             /\ ~isLoading'
             /\ ~crashed'
       /\ Len(ChatRequestsOf(chatRequests')) <= 1
       /\ pcChat' \in {"fetching", "reading"} =>
             Len(ChatRequestsOf(chatRequests')) = 1
      ]_vars

\* a turn has failed in the middle of its stream: its reply entry is
\* followed by its error entry
C9_Witness ==
    /\ pcChat = "idle"
    /\ ~isLoading
    /\ Len(origin) >= 3
    /\ origin[Len(origin) - 1] = Origin("reply", turn)
    /\ origin[Len(origin)] = Origin("error", turn)
    /\ StartsWith(messages[Len(messages)].content, TxtErrorPrefix)

\* C10: while a session is open isLoading is true and the message field
\* and the submit button are disabled, and a submission is accepted only
\* when no session is open.
C10_OneSessionAtATime ==
    [][/\ pcChat' # "idle" =>
             isLoading' /\ InputDisabled' /\ SubmitDisabled'
       /\ turn' # turn => pcChat = "idle" /\ ~isLoading
      ]_vars

\* the second session is open, with a valid credential entered and
\* the controls disabled by isLoading alone
C10_Witness ==
    /\ turn = 2
    /\ pcChat # "idle"
    /\ isValidApiKey
    /\ isLoading
    /\ InputDisabled

---------------------------------------------------------------------------
(* Properties of the upload and of the requests                            *)

\* the step in which the upload request is rejected or refused
UploadFails ==
    \/ \E e \in ThrownValues : UploadFetchRejects(e)
    \/ \E r \in ErrorResponses : UploadResponseNotOk(r)

\* C11: a failed upload ends inside handleFileUpload with exactly one
\* entry appended, an assistant entry 'Error uploading PDF: ' and a
\* message, and with chatMode and pdfStatus as they were.
C11_UploadFailureIsOneEntry ==
    [][UploadFails =>
          /\ Len(messages') = Len(messages) + 1
          /\ LET e == messages'[Len(messages')] IN
             /\ messages' = Append(messages, e)
             /\ e.role = "assistant"
             /\ StartsWith(e.content, TxtUploadErrorPrefix)
             /\ Len(e.content) > Len(TxtUploadErrorPrefix)
          /\ UNCHANGED <<chatMode, pdfStatus, pcChat, isLoading>>
          /\ pcUpload' = "idle"
          /\ ~isUploading'
          /\ ~crashed'
      ]_vars

\* an upload has failed on a page that was in RAG mode with a PDF loaded,
\* and the page still is
C11_Witness ==
    /\ pcUpload = "idle"
    /\ uploadRequests = 1
    /\ origin # <<>>
    /\ origin[Len(origin)].kind = "uploadError"
    /\ StartsWith(messages[Len(messages)].content, TxtUploadErrorPrefix)
    /\ chatMode = "rag"
    /\ pdfStatus.pdf_loaded

\* C12: an accepted submission appends the user entry and, on the page
\* with chat modes, sends one request: to the RAG endpoint with
\* {user_message, api_key} when chatMode is 'rag' at that moment, else to
\* the chat endpoint with {developer_message, user_message, api_key};
\* user_message is the content of the user entry.  The pages that probe
\* first send the chat request with the message and credential captured
\* at the submission.  No other step of an open turn changes the requests.
C12_EndpointByModeAtSubmit ==
    [][/\ turn' # turn =>
             LET u == messages'[Len(messages')] IN
             /\ messages' = Append(messages, u)
             /\ u = Message("user", inputMessage)
             /\ closure' = [inputMessage |-> u.content, apiKey |-> apiKey]
             /\ variant = "rag" =>
                   chatRequests' =
                      <<IF chatMode = "rag"
                        THEN RagChatRequest(u.content, apiKey)
                        ELSE ChatRequest(u.content, apiKey)>>
             /\ variant = "health" => chatRequests' = <<HealthRequest>>
       /\ pcChat = "probing" /\ pcChat' = "fetching" =>
             chatRequests' =
                Append(chatRequests,
                       ChatRequest(closure.inputMessage, closure.apiKey))
       /\ pcChat \in {"fetching", "reading"} /\ pcChat' # "idle" =>
             chatRequests' = chatRequests
       /\ pcChat # "idle" /\ pcChat' # "idle" => closure' = closure
       /\ Len(ChatRequestsOf(chatRequests')) <= 1
      ]_vars

\* the reply of a request sent to the RAG endpoint is streaming while the
\* mode has been switched back to regular
C12_Witness ==
    /\ pcChat = "reading"
    /\ delivered # <<>>
    /\ chatMode = "regular"
    /\ chatRequests =
          <<RagChatRequest(closure.inputMessage, closure.apiKey)>>
    /\ closure.inputMessage = <<104, 105>>

---------------------------------------------------------------------------
(* Properties of the chunk loop                                            *)

\* the step in which reader.read() returns a chunk
ChunkArrives ==
    /\ delivered' # delivered
    /\ delivered' # <<>>

\* the text decoded from the chunk that the step delivers
ChunkText == TextDecode(delivered'[Len(delivered')])

\* C13: a chunk rewrites no entry but a reply entry of the open session:
\* an entry the session did not write keeps its content.
C13_OnlyOwnEntryIsRewritten ==
    [][ChunkArrives =>
          \A i \in Rewritten : origin[i] = Origin("reply", turn)
      ]_vars

\* C14: while Clear Chat is not pressed, the first chunk of a session
\* appends its reply entry, holding the text of the chunk, and every
\* later chunk extends the content of that entry by its own text.
C14_ReplyGrowsByEachChunk ==
    [][ChunkArrives /\ ~cleared =>
          IF TurnReplies(origin, turn) = {}
          THEN messages' =
                  Append(messages, Message("assistant", ChunkText))
          ELSE /\ Len(messages') = Len(messages)
               /\ \A i \in TurnReplies(origin, turn) :
                     messages'[i].content =
                        messages[i].content \o ChunkText
      ]_vars

\* the bytes of the chunks, in arrival order
RECURSIVE ConcatBytes(_)
ConcatBytes(chunks) ==
    IF chunks = <<>>
    THEN <<>>
    ELSE Head(chunks) \o ConcatBytes(Tail(chunks))

\* C15: when a session ends without a failure (no upload message and no
\* Clear Chat in between), the content of its reply entry is the decoding
\* of all the bytes delivered, however they were cut into chunks.
C15_ByteSplitInvariance ==
    [][StreamEnds /\ delivered # <<>> /\ ~cleared /\ ~uploaded =>
          /\ TurnReplies(origin, turn) # {}
          /\ \A i \in TurnReplies(origin, turn) :
                messages[i].content = TextDecode(ConcatBytes(delivered))
      ]_vars

\* The bytes b[i..] are not UTF-8: the decoder, with `needed` continuation
\* bytes outstanding and the next one due within lo..hi, meets a byte it
\* cannot accept or the end of the bytes inside a code point.
RECURSIVE Utf8Error(_, _, _, _, _)
Utf8Error(b, i, needed, lo, hi) ==
    IF i > Len(b)
    THEN needed > 0
    ELSE LET byte == b[i] IN
         IF needed = 0
         THEN IF byte <= 127
              THEN Utf8Error(b, i + 1, 0, 128, 191)
              ELSE IF byte >= 194 /\ byte <= 223
              THEN Utf8Error(b, i + 1, 1, 128, 191)
              ELSE IF byte >= 224 /\ byte <= 239
              THEN Utf8Error(b, i + 1, 2,
                             IF byte = 224 THEN 160 ELSE 128,
                             IF byte = 237 THEN 159 ELSE 191)
              ELSE IF byte >= 240 /\ byte <= 244
              THEN Utf8Error(b, i + 1, 3,
                             IF byte = 240 THEN 144 ELSE 128,
                             IF byte = 244 THEN 143 ELSE 191)
              ELSE TRUE
         ELSE IF byte < lo \/ byte > hi
              THEN TRUE
              ELSE Utf8Error(b, i + 1, needed - 1, 128, 191)

\* a chunk that cannot be decoded
Undecodable(value) == Utf8Error(value, 1, 0, 128, 191)

\* C16: the arrival of a chunk that cannot be decoded ends the session
\* with an error entry appended, so that no later chunk is processed.
C16_UndecodableChunkIsFatal ==
    [][ChunkArrives /\ Undecodable(delivered'[Len(delivered')]) =>
          /\ pcChat' = "idle"
          /\ Len(messages') = Len(messages) + 1
          /\ StartsWith(messages'[Len(messages')].content, TxtErrorPrefix)
      ]_vars

---------------------------------------------------------------------------
(* Properties of the probes                                                *)

\* C17: on the pages that probe /api/health, a submission sends the probe
\* alone; the chat request is sent in the step in which the probe returns
\* ok, and never otherwise; when the probe is rejected or not ok the turn
\* ends with no chat request sent and the transcript is the one before
\* the submission followed by the user entry and one error entry.
C17_ChatRequestAfterProbe ==
    [][variant = "health" =>
          /\ turn' # turn =>
                /\ chatRequests' = <<HealthRequest>>
                /\ pcChat' = "probing"
          /\ ChatRequestsOf(chatRequests') # ChatRequestsOf(chatRequests)
                /\ pcChat' # "idle" =>
                /\ pcChat = "probing"
                /\ pcChat' = "fetching"
                /\ chatRequests = <<HealthRequest>>
                /\ messages' = messages
          /\ pcChat = "probing" /\ pcChat' = "idle" =>
                /\ chatRequests = <<HealthRequest>>
                /\ Len(messages') = Len(startMessages) + 2
                /\ LET e == messages'[Len(messages')] IN
                   /\ messages' =
                         startMessages \o
                         <<Message("user", closure.inputMessage), e>>
                   /\ e.role = "assistant"
                   /\ StartsWith(e.content, TxtErrorPrefix)
      ]_vars

\* the probe of the first turn returned a status that is not ok: the
\* transcript is the user entry and the error entry
C17_Witness ==
    /\ variant = "health"
    /\ pcChat = "idle"
    /\ turn = 1
    /\ messages = <<Message("user", <<104, 105>>),
                    Message("assistant", TxtErrorPrefix \o TxtBackendDown)>>

\* what the claim says a status probe with outcome res does
ProbeEffect(res) ==
    IF res.ok
    THEN /\ pdfStatus' = res.body
         /\ chatMode' = IF res.body.pdf_loaded THEN "rag" ELSE chatMode
    ELSE UNCHANGED <<pdfStatus, chatMode>>

\* C18: a status probe sets pdfStatus to the body returned only when the
\* response is ok, and then sets chatMode to 'rag' only when the body says
\* pdf_loaded; otherwise it leaves both alone.  The probe itself writes
\* nothing to the transcript: the one of the mount effect leaves it as it
\* is, and after the one of an upload handleFileUpload appends its
\* success message whatever the probe returned.
C18_StatusProbe ==
    [][\A res \in StatusResults :
          /\ MountProbeReturns(res) =>
                /\ ProbeEffect(res)
                /\ messages' = messages
          /\ UploadProbeReturns(res) =>
                /\ ProbeEffect(res)
                /\ messages' =
                      Append(messages,
                             Message("assistant",
                                     TxtPdfOpen \o upFile.name
                                         \o TxtPdfUploaded))
      ]_vars

\* the probe after an upload failed: pdfStatus still says that no PDF is
\* loaded, and chatMode is what the upload had set
C18_Witness ==
    /\ pcUpload = "idle"
    /\ pcMount = "done"
    /\ origin # <<>>
    /\ origin[Len(origin)].kind = "upload"
    /\ pdfStatus = [pdf_loaded |-> FALSE, chunks_count |-> 0]
    /\ chatMode = "rag"

---------------------------------------------------------------------------
(* Properties of the page as a whole                                       *)

\* C19: when a chunk arrives the transcript is not empty, so the updater
\* finds a last entry and the page goes on.
C19_ChunkFindsLastEntry ==
    [][ChunkArrives => messages # <<>> /\ ~crashed']_vars

\* The transport lets the open turn move on: the probe, the request or the
\* stream ends, well or not.
TransportEnds ==
    \/ HealthOk
    \/ HealthNotOk
    \/ \E e \in SomeThrown : HealthFetchRejects(e)
    \/ ChatStreamOpens
    \/ ChatNoReader
    \/ \E e \in SomeThrown : ChatFetchRejects(e)
    \/ \E r \in SomeErrorResponses : ChatResponseNotOk(r)
    \/ ReadDone
    \/ \E e \in SomeThrown : ReadRejects(e)

\* The page without uploads and probes of the PDF status: the credential
\* and the message are typed, the form is submitted, Clear Chat is pressed
\* and the transport does its part.
NextLive ==
    \/ \E k \in SomeKeys : handleApiKeyChange(k)
    \/ \E t \in SomeInputs : handleInputChange(t)
    \/ clearChat
    \/ SubmitForm
    \/ \E c \in Chunks : ReadChunk(c)
    \/ TransportEnds

\* the transport always ends what it has begun
SpecLive == Init /\ [][NextLive]_vars /\ WF_vars(TransportEnds)

\* C20: an accepted submission sets isLoading, isLoading is true only
\* while a session is open, and whenever it is true it is false again
\* later.
C20_LoadingEnds ==
    /\ [][turn' # turn => isLoading']_vars
    /\ [](isLoading => pcChat # "idle")
    /\ (isLoading ~> ~isLoading)

\* C21: in every state chatMode is 'rag' only if pdfStatus says that a PDF
\* is loaded.
C21_RagOnlyWithPdf == chatMode = "rag" => pdfStatus.pdf_loaded

===========================================================================
